---------------------------- MODULE Spec2Model ----------------------------
(***************************************************************************)
(* Fuel-station service (api_server.py): the domain classes Serbatoio and  *)
(* Distributore, the in-memory registry _distributori guarded by one       *)
(* threading.Lock, and the Flask request handlers running on concurrent    *)
(* request threads.                                                        *)
(*                                                                         *)
(* Numbers: Python floats are modelled as integers.  Tank quantities are   *)
(* in thousands of litres (10000 L = 10), prices in euro cents (1.90 =     *)
(* 190), coordinates in 1e-4 degrees.  Strings that the code transforms    *)
(* (province codes, through str.lower) are sequences of character codes.   *)
(***************************************************************************)
EXTENDS Integers, Sequences, FiniteSets, TLC

VARIABLES
    distributori,   \* the module-level list _distributori
    lock,           \* threading.Lock: 0 = free, otherwise the holding thread
    pc,             \* per request thread: position in its handler
    req,            \* per thread: the request being served (route and URL arguments)
    data,           \* per thread: request.get_json(silent=True) of the PUT being served
    nuovi_prezzi,   \* per thread: the dict nuovi_prezzi of the PUT handler
    idx,            \* per thread: loop position in _distributori / in the list to serialise
    aggiornati,     \* per thread: the list aggiornati of the PUT handler
    work,           \* per thread: the list a GET handler serialises (ordinati, selezionati, ...)
    resp,           \* per thread: the JSON array/object built so far by a GET handler
    status,         \* per thread: HTTP status of the response being returned
    touched,        \* history: the thread's current PUT has assigned some price
    torn,           \* history: per station, benzina written by a two-price PUT whose diesel write has not followed
    serial,         \* history: the registry obtained by running the PUTs one at a time, in lock order
    lastput,        \* history: provincia and prices of the last PUT that returned 200, until a later write
    before,         \* history: the registry when the last PUT request was received
    lastget,        \* history: request and response of the last GET answered, until a later write
    nreq,           \* history: number of requests and direct calls so far
    scall,          \* the last direct call of Distributore.set_prezzo: station position, tipo, nuovo_prezzo
    sprev,          \* the station before that call
    sexc,           \* the exception message that call raised, or "" when it returned
    spost,          \* the station right after that call
    tank,           \* a Serbatoio object driven directly (no handler calls aggiungi/preleva)
    tcall,          \* the last call made on tank: method and argument
    tprev,          \* tank.livello before that call
    texc,           \* the exception message that call raised, or "" when it returned
    tret            \* the value the last percentuale call returned

vars == <<distributori, lock, pc, req, data, nuovi_prezzi, idx, aggiornati, work,
          resp, status, touched, torn, serial, lastput, before, lastget, nreq, scall, sprev,
          sexc, spost, tank, tcall, tprev, texc, tret>>

httpVars == <<distributori, lock, pc, req, data, nuovi_prezzi, idx, aggiornati, work,
              resp, status, touched, torn, serial, lastput, before, lastget, nreq, scall, sprev,
              sexc, spost>>

tankVars == <<tank, tcall, tprev, texc, tret>>

directVars == <<scall, sprev, sexc, spost>>

----------------------------------------------------------------------------
(* Bounds *)

\* Prices carried by request bodies and direct calls: -1, 0 and MaxPrice (cents).
MaxPrice == 1

\* Requests received in one run of the server.
MaxRequests == 2

\* Tank capacities range over 0 .. MaxCap; amounts over -1 .. MaxCap + 2.
MaxCap == 10

\* Levels of a freshly constructed tank range over -MaxDeficit .. MaxCap.
MaxDeficit == 2

Threads == {1, 2}

----------------------------------------------------------------------------
(* Strings transformed by the code *)

\* "MI", "mi", "TO", "XX" as character codes.
MI == <<77, 73>>
mi == <<109, 105>>
TO == <<84, 79>>
XX == <<88, 88>>

\* provincia arguments of the requests: a different case, the same case, no station.
Provinces == {mi, TO, XX}

\* str.lower() on ASCII text.
Lower(s) == [i \in DOMAIN s |-> IF s[i] >= 65 /\ s[i] <= 90 THEN s[i] + 32 ELSE s[i]]

----------------------------------------------------------------------------
(* Serbatoio *)

Serbatoio(capacita, livello) == [capacita |-> capacita, livello |-> livello]

\* The larger argument where min gives the smaller.
Min_larger(a, b) == IF b < a THEN a ELSE b

\* Python's min(a, b).
Min(a, b) == IF b < a THEN b ELSE a

\* aggiungi without the clamp to capacita.
aggiungi_unclamped(self, quantita) ==
    IF quantita < 0
    THEN <<self, "quantita negativa">>
    ELSE <<[self EXCEPT !.livello = self.livello + quantita], "">>

\* Serbatoio.aggiungi: the pair <<tank after, exception message>>.
aggiungi(self, quantita) ==
    IF quantita < 0
    THEN <<self, "quantita negativa">>
    ELSE <<[self EXCEPT !.livello = Min(self.capacita, self.livello + quantita)], "">>

\* preleva refusing to empty the tank (>= where the code has >).
preleva_strict(self, quantita) ==
    IF quantita < 0
    THEN <<self, "quantita negativa">>
    ELSE IF quantita >= self.livello
         THEN <<self, "livello insufficiente">>
         ELSE <<[self EXCEPT !.livello = self.livello - quantita], "">>

\* preleva testing the level before the sign of the amount.
preleva_level_first(self, quantita) ==
    IF quantita > self.livello
    THEN <<self, "livello insufficiente">>
    ELSE IF quantita < 0
         THEN <<self, "quantita negativa">>
         ELSE <<[self EXCEPT !.livello = self.livello - quantita], "">>

\* Serbatoio.preleva: the pair <<tank after, exception message>>.
preleva(self, quantita) ==
    IF quantita < 0
    THEN <<self, "quantita negativa">>
    ELSE IF quantita > self.livello
         THEN <<self, "livello insufficiente">>
         ELSE <<[self EXCEPT !.livello = self.livello - quantita], "">>

\* percentuale without the test for capacita == 0.
percentuale_nozero(self) == <<self.livello * 100, self.capacita>>

\* Serbatoio.percentuale as the fraction <<numerator, denominator>>.
percentuale(self) ==
    IF self.capacita = 0 THEN <<0, 1>> ELSE <<self.livello * 100, self.capacita>>

----------------------------------------------------------------------------
(* Distributore *)

\* set_prezzo without the negative-price test.
set_prezzo_unchecked(self, tipo, nuovo_prezzo) ==
    IF tipo = "benzina"
    THEN <<[self EXCEPT !.prezzo_benzina = nuovo_prezzo], "">>
    ELSE IF tipo = "diesel"
         THEN <<[self EXCEPT !.prezzo_diesel = nuovo_prezzo], "">>
         ELSE <<self, "Tipo carburante sconosciuto">>

\* set_prezzo testing the tipo before the sign.
set_prezzo_tipo_first(self, tipo, nuovo_prezzo) ==
    IF tipo \notin {"benzina", "diesel"}
    THEN <<self, "Tipo carburante sconosciuto">>
    ELSE IF nuovo_prezzo < 0
         THEN <<self, "Prezzo negativo">>
         ELSE IF tipo = "benzina"
              THEN <<[self EXCEPT !.prezzo_benzina = nuovo_prezzo], "">>
              ELSE <<[self EXCEPT !.prezzo_diesel = nuovo_prezzo], "">>

\* set_prezzo assigning both prices whatever the tipo.
set_prezzo_both(self, tipo, nuovo_prezzo) ==
    IF nuovo_prezzo < 0
    THEN <<self, "Prezzo negativo">>
    ELSE IF tipo \in {"benzina", "diesel"}
         THEN <<[self EXCEPT !.prezzo_benzina = nuovo_prezzo,
                             !.prezzo_diesel = nuovo_prezzo], "">>
         ELSE <<self, "Tipo carburante sconosciuto">>

\* set_prezzo knowing benzina only.
set_prezzo_benzina_only(self, tipo, nuovo_prezzo) ==
    IF nuovo_prezzo < 0
    THEN <<self, "Prezzo negativo">>
    ELSE IF tipo = "benzina"
         THEN <<[self EXCEPT !.prezzo_benzina = nuovo_prezzo], "">>
         ELSE <<self, "Tipo carburante sconosciuto">>

\* set_prezzo overwriting the id of the station together with a price.
set_prezzo_reid(self, tipo, nuovo_prezzo) ==
    IF nuovo_prezzo < 0
    THEN <<self, "Prezzo negativo">>
    ELSE IF tipo = "benzina"
         THEN <<[self EXCEPT !.prezzo_benzina = nuovo_prezzo, !.id = 1], "">>
         ELSE IF tipo = "diesel"
              THEN <<[self EXCEPT !.prezzo_diesel = nuovo_prezzo, !.id = 1], "">>
              ELSE <<self, "Tipo carburante sconosciuto">>

\* set_prezzo testing the sign only after the assignment.
set_prezzo_late(self, tipo, nuovo_prezzo) ==
    LET r == set_prezzo_unchecked(self, tipo, nuovo_prezzo)
    IN IF nuovo_prezzo < 0 THEN <<r[1], "Prezzo negativo">> ELSE r

\* Distributore.set_prezzo: the pair <<station after, exception message>>.
set_prezzo(self, tipo, nuovo_prezzo) ==
    IF nuovo_prezzo < 0
    THEN <<self, "Prezzo negativo">>
    ELSE IF tipo = "benzina"
         THEN <<[self EXCEPT !.prezzo_benzina = nuovo_prezzo], "">>
         ELSE IF tipo = "diesel"
              THEN <<[self EXCEPT !.prezzo_diesel = nuovo_prezzo], "">>
              ELSE <<self, "Tipo carburante sconosciuto">>

to_dict(self) ==
    [id |-> self.id, nome |-> self.nome, provincia |-> self.provincia,
     indirizzo |-> self.indirizzo, lat |-> self.lat, lon |-> self.lon,
     prezzo_benzina |-> self.prezzo_benzina, prezzo_diesel |-> self.prezzo_diesel,
     livello_benzina |-> self.serbatoio_benzina.livello,
     capacita_benzina |-> self.serbatoio_benzina.capacita,
     percent_benzina |-> percentuale(self.serbatoio_benzina),
     livello_diesel |-> self.serbatoio_diesel.livello,
     capacita_diesel |-> self.serbatoio_diesel.capacita,
     percent_diesel |-> percentuale(self.serbatoio_diesel)]

\* The dict built per station by api_mappa_distributori.
map_entry(d) ==
    [id |-> d.id, nome |-> d.nome, provincia |-> d.provincia, lat |-> d.lat, lon |-> d.lon,
     prezzo_benzina |-> d.prezzo_benzina, prezzo_diesel |-> d.prezzo_diesel]

\* The initial value of _distributori.
SeedDistributori ==
    << [id |-> 1, nome |-> "IPERSTAR Ovest", provincia |-> MI,
        indirizzo |-> "Via Roma 10, Milano", lat |-> 454642, lon |-> 91900,
        serbatoio_benzina |-> Serbatoio(10, 7), serbatoio_diesel |-> Serbatoio(12, 9),
        prezzo_benzina |-> 190, prezzo_diesel |-> 180],
       [id |-> 2, nome |-> "IPERSTAR Sud", provincia |-> MI,
        indirizzo |-> "Piazza Duomo 1, Milano", lat |-> 454643, lon |-> 91910,
        serbatoio_benzina |-> Serbatoio(8, 2), serbatoio_diesel |-> Serbatoio(10, 4),
        prezzo_benzina |-> 192, prezzo_diesel |-> 182],
       [id |-> 3, nome |-> "IPERSTAR Nord", provincia |-> TO,
        indirizzo |-> "Corso Francia 2, Torino", lat |-> 450703, lon |-> 76869,
        serbatoio_benzina |-> Serbatoio(9, 9), serbatoio_diesel |-> Serbatoio(11, 5),
        prezzo_benzina |-> 195, prezzo_diesel |-> 185] >>

----------------------------------------------------------------------------
(* JSON values, as request.get_json(silent=True) returns them *)

\* None: no body, a body that is not JSON, a content type that is not JSON, or null.
JNone == [t |-> "none"]
JNum(n) == [t |-> "num", n |-> n]
JStr(s) == [t |-> "str", s |-> s]
JList(items) == [t |-> "list", items |-> items]
\* A JSON object: its benzina and diesel members (Absent when the key is missing)
\* and whether it has any other member.
JObj(b, d, altro) == [t |-> "obj", benzina |-> b, diesel |-> d, altro |-> altro]
Absent == [t |-> "absent"]

\* Python truth value of a parsed body (`if not data`).
Truthy(v) ==
    CASE v.t = "none" -> FALSE
      [] v.t = "num"  -> v.n # 0
      [] v.t = "str"  -> v.s # ""
      [] v.t = "list" -> v.items # <<>>
      [] v.t = "obj"  -> v.benzina # Absent \/ v.diesel # Absent \/ v.altro

\* `key in data` raises TypeError on a number.
InRaises(v) == v.t = "num"

\* `key in data` for a list (element) or an object (key).
In(key, v) ==
    CASE v.t = "list" -> \E i \in DOMAIN v.items : v.items[i] = key
      [] v.t = "obj"  -> v[key] # Absent
      [] OTHER        -> FALSE

\* Decimal strings float() accepts, with their values.
Numerals == ("1" :> 1) @@ ("-1" :> -1)

\* float(data[key]): <<TRUE, value>>, or <<FALSE, 0>> when data[key] or float raises
\* (TypeError on indexing a list with a string, ValueError/TypeError from float).
FloatOf(v, key) ==
    IF v.t # "obj" THEN <<FALSE, 0>>
    ELSE LET x == v[key] IN
         CASE x.t = "num" -> <<TRUE, x.n>>
           [] x.t = "str" -> IF x.s \in DOMAIN Numerals THEN <<TRUE, Numerals[x.s]>>
                             ELSE <<FALSE, 0>>
           [] OTHER       -> <<FALSE, 0>>

EmptyDict == [k \in {} |-> 0]

\* Lines 180-196 of api_cambia_prezzi_provincia: the dict nuovi_prezzi, or the
\* error response returned before the lock is taken (500: uncaught TypeError).
ParsePrezzi(v) ==
    IF ~Truthy(v) THEN [status |-> 400, error |-> "Richiesta JSON mancante"]
    ELSE IF InRaises(v) THEN [status |-> 500, error |-> "TypeError"]
    ELSE LET fb == FloatOf(v, "benzina")
             fd == FloatOf(v, "diesel")
             np1 == IF In("benzina", v) THEN ("benzina" :> fb[2]) ELSE EmptyDict
             np2 == IF In("diesel", v) THEN np1 @@ ("diesel" :> fd[2]) ELSE np1
         IN IF In("benzina", v) /\ ~fb[1]
            THEN [status |-> 400, error |-> "Prezzo benzina non valido"]
            ELSE IF In("diesel", v) /\ ~fd[1]
            THEN [status |-> 400, error |-> "Prezzo diesel non valido"]
            ELSE IF DOMAIN np2 = {}
            THEN [status |-> 400, error |-> "Nessun prezzo fornito"]
            ELSE [status |-> 0, nuovi_prezzi |-> np2]

\* Member values a request body carries for benzina / diesel.
Prices == {-1, 0, MaxPrice}

FieldValues == {Absent} \cup {JNum(n) : n \in Prices} \cup {JStr("abc"), JStr("1"), JNone}

ConcProvinces == {mi, TO}

\* Request bodies of the sequential specification.
Bodies ==
    {JNone, JNum(0), JNum(5), JList(<<>>), JList(<<"benzina">>), JObj(Absent, Absent, TRUE)}
    \cup {JObj(b, d, FALSE) : b \in FieldValues, d \in FieldValues}

\* Request bodies of the concurrent specification.
ConcBodies ==
    {JNone} \cup {JObj(b, d, FALSE) : b \in {Absent, JNum(0), JNum(MaxPrice)},
                                      d \in {Absent, JNum(-1), JNum(MaxPrice)}}

\* A province test every station passes.
ProvinciaMatch_any(d, provincia) == TRUE

\* The province test without the two lower() calls.
ProvinciaMatch_exact(d, provincia) == d.provincia = provincia

\* The province test `d.provincia.lower() == provincia.lower()`.
ProvinciaMatch(d, provincia) == Lower(d.provincia) = Lower(provincia)

----------------------------------------------------------------------------
(* Registry helpers *)

\* find_by_id: the index of the first station with that id, 0 for None.
RECURSIVE find_from(_, _, _)
find_from(reg, did, i) ==
    IF i > Len(reg) THEN 0
    ELSE IF reg[i].id = did THEN i
    ELSE find_from(reg, did, i + 1)

\* A lookup that never looks at the first station.
find_by_id_skip(reg, did) == find_from(reg, did, 2)

find_by_id(reg, did) == find_from(reg, did, 1)

\* sorted(_distributori, key=lambda x: x.id) as the list of positions in the
\* registry: a stable insertion sort.
RECURSIVE insert_by_id(_, _, _)
insert_by_id(reg, sortedIdx, i) ==
    IF sortedIdx = <<>> THEN <<i>>
    ELSE IF reg[i].id < reg[Head(sortedIdx)].id THEN <<i>> \o sortedIdx
    ELSE <<Head(sortedIdx)>> \o insert_by_id(reg, Tail(sortedIdx), i)

RECURSIVE sorted_from(_, _)
sorted_from(reg, n) ==
    IF n = 0 THEN <<>> ELSE insert_by_id(reg, sorted_from(reg, n - 1), n)

\* The storage order, unsorted.
sorted_by_id_storage(reg) == [i \in 1..Len(reg) |-> i]

sorted_by_id(reg) == sorted_from(reg, Len(reg))

\* [d for d in _distributori if d.provincia.lower() == provincia.lower()], as positions.
RECURSIVE selezionati_from(_, _, _)
selezionati_from(reg, provincia, i) ==
    IF i > Len(reg) THEN <<>>
    ELSE (IF ProvinciaMatch(reg[i], provincia) THEN <<i>> ELSE <<>>)
         \o selezionati_from(reg, provincia, i + 1)

\* A selection that never looks at the first station.
selezionati_tail(reg, provincia) == selezionati_from(reg, provincia, 2)

selezionati(reg, provincia) == selezionati_from(reg, provincia, 1)

\* The loop of api_cambia_prezzi_provincia (lines 200-206) run without
\* interruption from station i on; an exception from set_prezzo ends it.
RECURSIVE cambia_from(_, _, _, _)
cambia_from(reg, provincia, np, i) ==
    IF i > Len(reg) THEN reg
    ELSE IF ~ProvinciaMatch(reg[i], provincia) THEN cambia_from(reg, provincia, np, i + 1)
    ELSE LET rb == IF "benzina" \in DOMAIN np
                   THEN set_prezzo(reg[i], "benzina", np["benzina"])
                   ELSE <<reg[i], "">>
             rd == IF "diesel" \in DOMAIN np
                   THEN set_prezzo(rb[1], "diesel", np["diesel"])
                   ELSE <<rb[1], "">>
         IN IF rb[2] # "" THEN reg
            ELSE IF rd[2] # "" THEN [reg EXCEPT ![i] = rb[1]]
            ELSE cambia_from([reg EXCEPT ![i] = rd[1]], provincia, np, i + 1)

----------------------------------------------------------------------------
(* State *)

NoReq == [route |-> "none"]

TankInit ==
    /\ tank \in {Serbatoio(c, l) : c \in 0..MaxCap, l \in 0..MaxCap}
    /\ tank.livello <= tank.capacita
    /\ tcall = [op |-> "none", quantita |-> 0]
    /\ tprev = tank.livello
    /\ texc = ""
    /\ tret = <<0, 1>>

HttpInit ==
    /\ distributori = SeedDistributori
    /\ lock = 0
    /\ pc = [t \in Threads |-> "idle"]
    /\ req = [t \in Threads |-> NoReq]
    /\ data = [t \in Threads |-> JNone]
    /\ nuovi_prezzi = [t \in Threads |-> EmptyDict]
    /\ idx = [t \in Threads |-> 0]
    /\ aggiornati = [t \in Threads |-> <<>>]
    /\ work = [t \in Threads |-> <<>>]
    /\ resp = [t \in Threads |-> <<>>]
    /\ status = [t \in Threads |-> 0]
    /\ touched = [t \in Threads |-> FALSE]
    /\ torn = [i \in DOMAIN SeedDistributori |-> FALSE]
    /\ serial = SeedDistributori
    /\ lastput = NoReq
    /\ lastget = NoReq
    /\ before = SeedDistributori
    /\ nreq = 0
    /\ scall = [op |-> "none"]
    /\ sprev = SeedDistributori[1]
    /\ sexc = ""
    /\ spost = SeedDistributori[1]

\* Any Serbatoio the constructor accepts (it validates nothing): livello may
\* exceed capacita or be negative.
InitPercent ==
    /\ HttpInit
    /\ tank \in {Serbatoio(c, l) : c \in 0..MaxCap, l \in (-MaxDeficit)..MaxCap}
    /\ tcall = [op |-> "none", quantita |-> 0]
    /\ tprev = tank.livello
    /\ texc = ""
    /\ tret = <<0, 1>>

\* The storage orders of the three seed stations.
Orders == {o \in [1..3 -> 1..3] : \A i \in 1..3, j \in 1..3 : o[i] = o[j] => i = j}

\* An idle server whose list _distributori holds the seed stations in any
\* storage order.
InitOrder ==
    /\ \E o \in Orders : distributori = [i \in 1..3 |-> SeedDistributori[o[i]]]
    /\ lock = 0
    /\ pc = [t \in Threads |-> "idle"]
    /\ req = [t \in Threads |-> NoReq]
    /\ data = [t \in Threads |-> JNone]
    /\ nuovi_prezzi = [t \in Threads |-> EmptyDict]
    /\ idx = [t \in Threads |-> 0]
    /\ aggiornati = [t \in Threads |-> <<>>]
    /\ work = [t \in Threads |-> <<>>]
    /\ resp = [t \in Threads |-> <<>>]
    /\ status = [t \in Threads |-> 0]
    /\ touched = [t \in Threads |-> FALSE]
    /\ torn = [i \in 1..3 |-> FALSE]
    /\ serial = distributori
    /\ lastput = NoReq
    /\ lastget = NoReq
    /\ before = distributori
    /\ nreq = 0
    /\ scall = [op |-> "none"]
    /\ sprev = SeedDistributori[1]
    /\ sexc = ""
    /\ spost = SeedDistributori[1]
    /\ tank = Serbatoio(0, 0)
    /\ tcall = [op |-> "none", quantita |-> 0]
    /\ tprev = 0
    /\ texc = ""
    /\ tret = <<0, 1>>

\* The server right after start, all request threads idle.
Init ==
    /\ HttpInit
    /\ tank = Serbatoio(0, 0)
    /\ tcall = [op |-> "none", quantita |-> 0]
    /\ tprev = 0
    /\ texc = ""
    /\ tret = <<0, 1>>

\* A lock that never blocks.
acquire_always(l) == TRUE

\* threading.Lock.acquire succeeds only on a free lock.
acquire_free(l) == l = 0

----------------------------------------------------------------------------
(* PUT /api/distributori/provincia/<provincia>/prezzi *)

\* Lines 178-198: read and validate the body, before the lock is requested.
api_cambia_prezzi_provincia(t, provincia, body) ==
    LET r == ParsePrezzi(body) IN
    /\ pc[t] = "idle"
    /\ nreq < MaxRequests
    /\ nreq' = nreq + 1
    /\ req' = [req EXCEPT ![t] = [route |-> "prezzi", provincia |-> provincia]]
    /\ aggiornati' = [aggiornati EXCEPT ![t] = <<>>]
    /\ touched' = [touched EXCEPT ![t] = FALSE]
    /\ data' = [data EXCEPT ![t] = body]
    /\ before' = distributori
    /\ IF r.status = 0
       THEN /\ pc' = [pc EXCEPT ![t] = "put_lock"]
            /\ nuovi_prezzi' = [nuovi_prezzi EXCEPT ![t] = r.nuovi_prezzi]
            /\ UNCHANGED <<status, resp>>
       ELSE /\ pc' = [pc EXCEPT ![t] = "respond"]
            /\ status' = [status EXCEPT ![t] = r.status]
            /\ resp' = [resp EXCEPT ![t] = [error |-> r.error]]
            /\ UNCHANGED nuovi_prezzi
    /\ UNCHANGED <<distributori, lock, idx, work, torn, serial, lastput, lastget, directVars, tankVars>>

\* Line 199: `with lock:` entered.
PutAcquire(t) ==
    /\ pc[t] = "put_lock"
    /\ acquire_free(lock)
    /\ lock' = t
    /\ pc' = [pc EXCEPT ![t] = "put_loop"]
    /\ idx' = [idx EXCEPT ![t] = 1]
    /\ serial' = cambia_from(serial, req[t].provincia, nuovi_prezzi[t], 1)
    /\ UNCHANGED <<distributori, req, data, nuovi_prezzi, aggiornati, work, resp, status,
                   touched, torn, lastput, nreq, before, lastget, directVars, tankVars>>

\* Lines 200-201: next station of the loop and its province test; the loop's
\* end leaves the with block (releasing the lock) and returns aggiornati.
PutLoop(t) ==
    /\ pc[t] = "put_loop"
    /\ IF idx[t] > Len(distributori)
       THEN /\ lock' = 0
            /\ pc' = [pc EXCEPT ![t] = "respond"]
            /\ status' = [status EXCEPT ![t] = 200]
            /\ resp' = [resp EXCEPT ![t] = [aggiornati |-> aggiornati[t]]]
            /\ lastput' = [route |-> "prezzi", provincia |-> req[t].provincia,
                           prezzi |-> nuovi_prezzi[t]]
            /\ UNCHANGED idx
       ELSE /\ IF ProvinciaMatch(distributori[idx[t]], req[t].provincia)
               THEN /\ pc' = [pc EXCEPT ![t] = "put_benzina"]
                    /\ UNCHANGED idx
               ELSE /\ idx' = [idx EXCEPT ![t] = idx[t] + 1]
                    /\ UNCHANGED pc
            /\ UNCHANGED <<lock, status, resp, lastput>>
    /\ UNCHANGED <<distributori, req, data, nuovi_prezzi, aggiornati, work, touched, torn,
                   serial, nreq, before, lastget, directVars, tankVars>>

\* An exception that leaves the handler with the lock still held.
PutRaise_held(t, msg) ==
    /\ UNCHANGED lock
    /\ pc' = [pc EXCEPT ![t] = "respond"]
    /\ status' = [status EXCEPT ![t] = 500]
    /\ resp' = [resp EXCEPT ![t] = [error |-> msg]]

\* The uncaught ValueError(msg) of set_prezzo leaves the with block (releasing
\* the lock) and becomes Flask's 500 response.
PutRaise(t, msg) ==
    /\ lock' = 0
    /\ pc' = [pc EXCEPT ![t] = "respond"]
    /\ status' = [status EXCEPT ![t] = 500]
    /\ resp' = [resp EXCEPT ![t] = [error |-> msg]]

\* Lines 202-203.
PutBenzina(t) ==
    LET i == idx[t]
        r == set_prezzo(distributori[i], "benzina", nuovi_prezzi[t]["benzina"])
    IN
    /\ pc[t] = "put_benzina"
    /\ IF "benzina" \notin DOMAIN nuovi_prezzi[t]
       THEN /\ pc' = [pc EXCEPT ![t] = "put_diesel"]
            /\ UNCHANGED <<distributori, lock, status, resp, touched, torn, lastput, lastget>>
       ELSE IF r[2] # ""
       THEN /\ PutRaise(t, r[2])
            /\ UNCHANGED <<distributori, touched, torn, lastput, lastget>>
       ELSE /\ distributori' = [distributori EXCEPT ![i] = r[1]]
            /\ touched' = [touched EXCEPT ![t] = TRUE]
            /\ torn' = [torn EXCEPT ![i] = "diesel" \in DOMAIN nuovi_prezzi[t]]
            /\ lastput' = NoReq
            /\ lastget' = NoReq
            /\ pc' = [pc EXCEPT ![t] = "put_diesel"]
            /\ UNCHANGED <<lock, status, resp>>
    /\ UNCHANGED <<req, data, nuovi_prezzi, idx, aggiornati, work, serial, nreq, before, directVars, tankVars>>

\* Lines 204-206.
PutDiesel(t) ==
    LET i == idx[t]
        r == set_prezzo(distributori[i], "diesel", nuovi_prezzi[t]["diesel"])
    IN
    /\ pc[t] = "put_diesel"
    /\ IF "diesel" \in DOMAIN nuovi_prezzi[t] /\ r[2] # ""
       THEN /\ PutRaise(t, r[2])
            /\ UNCHANGED <<distributori, touched, torn, lastput, lastget, aggiornati, idx>>
       ELSE /\ IF "diesel" \in DOMAIN nuovi_prezzi[t]
               THEN /\ distributori' = [distributori EXCEPT ![i] = r[1]]
                    /\ touched' = [touched EXCEPT ![t] = TRUE]
                    /\ torn' = [torn EXCEPT ![i] = FALSE]
                    /\ lastput' = NoReq
                    /\ lastget' = NoReq
               ELSE UNCHANGED <<distributori, touched, torn, lastput, lastget>>
            /\ aggiornati' = [aggiornati EXCEPT ![t] = Append(aggiornati[t], distributori[i].id)]
            /\ idx' = [idx EXCEPT ![t] = i + 1]
            /\ pc' = [pc EXCEPT ![t] = "put_loop"]
            /\ UNCHANGED <<lock, status, resp>>
    /\ UNCHANGED <<req, data, nuovi_prezzi, work, serial, nreq, before, directVars, tankVars>>

----------------------------------------------------------------------------
(* GET handlers *)

Dids == {1, 2, 3, 999}

GetRequests ==
    {[route |-> "elenco"], [route |-> "mappa"]}
    \cup {[route |-> "livelli_provincia", provincia |-> p] : p \in Provinces}
    \cup {[route |-> "livelli_distributore", did |-> d] : d \in Dids}

ConcGetRequests ==
    {[route |-> "elenco"], [route |-> "mappa"],
     [route |-> "livelli_provincia", provincia |-> mi],
     [route |-> "livelli_distributore", did |-> 1],
     [route |-> "livelli_distributore", did |-> 999]}

\* A GET request reaches its handler, which asks for the lock first.
GetReceive(t, r) ==
    /\ pc[t] = "idle"
    /\ nreq < MaxRequests
    /\ nreq' = nreq + 1
    /\ req' = [req EXCEPT ![t] = r]
    /\ pc' = [pc EXCEPT ![t] = "get_lock"]
    /\ UNCHANGED <<distributori, lock, data, nuovi_prezzi, idx, aggiornati, work, resp,
                   status, touched, torn, serial, lastput, before, lastget, directVars, tankVars>>

\* `with lock:` entered by a GET handler.
GetAcquire(t) ==
    /\ pc[t] = "get_lock"
    /\ acquire_free(lock)
    /\ lock' = t
    /\ pc' = [pc EXCEPT ![t] = "get_select"]
    /\ UNCHANGED <<distributori, req, data, nuovi_prezzi, idx, aggiornati, work, resp,
                   status, touched, torn, serial, lastput, nreq, before, lastget, directVars, tankVars>>

\* A full-list read that sorts the list _distributori itself.
GetSelect_inplace(t) ==
    LET r == req[t]
        found == find_by_id(distributori, r.did)
        ordinati == sorted_by_id(distributori)
    IN
    /\ pc[t] = "get_select"
    /\ IF r.route = "livelli_distributore" /\ found = 0
       THEN /\ lock' = 0
            /\ pc' = [pc EXCEPT ![t] = "respond"]
            /\ status' = [status EXCEPT ![t] = 404]
            /\ resp' = [resp EXCEPT ![t] = [error |-> "Distributore non trovato"]]
            /\ UNCHANGED <<work, idx, distributori>>
       ELSE /\ work' = [work EXCEPT ![t] =
                   CASE r.route = "livelli_provincia" -> selezionati(distributori, r.provincia)
                     [] r.route = "livelli_distributore" -> <<found>>
                     [] OTHER -> [i \in 1..Len(distributori) |-> i]]
            /\ distributori' = IF r.route = "elenco"
                               THEN [j \in 1..Len(distributori) |-> distributori[ordinati[j]]]
                               ELSE distributori
            /\ idx' = [idx EXCEPT ![t] = 1]
            /\ resp' = [resp EXCEPT ![t] = <<>>]
            /\ pc' = [pc EXCEPT ![t] = "get_build"]
            /\ UNCHANGED <<lock, status>>
    /\ UNCHANGED <<req, data, nuovi_prezzi, aggiornati, touched, torn, serial,
                   lastput, nreq, before, lastget, directVars, tankVars>>

\* The list the handler is going to serialise: ordinati, selezionati, the
\* station found, or the whole registry; abort(404) when find_by_id gives None.
GetSelect(t) ==
    LET r == req[t]
        found == find_by_id(distributori, r.did)
    IN
    /\ pc[t] = "get_select"
    /\ IF r.route = "livelli_distributore" /\ found = 0
       THEN /\ lock' = 0
            /\ pc' = [pc EXCEPT ![t] = "respond"]
            /\ status' = [status EXCEPT ![t] = 404]
            /\ resp' = [resp EXCEPT ![t] = [error |-> "Distributore non trovato"]]
            /\ UNCHANGED <<work, idx>>
       ELSE /\ work' = [work EXCEPT ![t] =
                   CASE r.route = "elenco" -> sorted_by_id(distributori)
                     [] r.route = "livelli_provincia" -> selezionati(distributori, r.provincia)
                     [] r.route = "livelli_distributore" -> <<found>>
                     [] r.route = "mappa" -> [i \in 1..Len(distributori) |-> i]]
            /\ idx' = [idx EXCEPT ![t] = 1]
            /\ resp' = [resp EXCEPT ![t] = <<>>]
            /\ pc' = [pc EXCEPT ![t] = "get_build"]
            /\ UNCHANGED <<lock, status>>
    /\ UNCHANGED <<distributori, req, data, nuovi_prezzi, aggiornati, touched, torn, serial,
                   lastput, nreq, before, lastget, directVars, tankVars>>

\* One station serialised (to_dict, or the map dict), or, at the end of the
\* list, jsonify returns and the with block is left.
GetBuild(t) ==
    LET r == req[t]
        d == distributori[work[t][idx[t]]]
    IN
    /\ pc[t] = "get_build"
    /\ IF idx[t] > Len(work[t])
       THEN /\ lock' = 0
            /\ pc' = [pc EXCEPT ![t] = "respond"]
            /\ status' = [status EXCEPT ![t] = 200]
            /\ UNCHANGED <<resp, idx>>
       ELSE /\ resp' = [resp EXCEPT ![t] =
                   CASE r.route = "mappa" -> Append(resp[t], map_entry(d))
                     [] r.route = "livelli_distributore" -> to_dict(d)
                     [] OTHER -> Append(resp[t], to_dict(d))]
            /\ idx' = [idx EXCEPT ![t] = idx[t] + 1]
            /\ UNCHANGED <<lock, pc, status>>
    /\ UNCHANGED <<distributori, req, data, nuovi_prezzi, aggiornati, work, touched, torn,
                   serial, lastput, nreq, before, lastget, directVars, tankVars>>

\* The response has been sent; the thread is free for the next request.
Respond(t) ==
    /\ pc[t] = "respond"
    /\ pc' = [pc EXCEPT ![t] = "idle"]
    /\ req' = [req EXCEPT ![t] = NoReq]
    /\ data' = [data EXCEPT ![t] = JNone]
    /\ nuovi_prezzi' = [nuovi_prezzi EXCEPT ![t] = EmptyDict]
    /\ idx' = [idx EXCEPT ![t] = 0]
    /\ aggiornati' = [aggiornati EXCEPT ![t] = <<>>]
    /\ work' = [work EXCEPT ![t] = <<>>]
    /\ resp' = [resp EXCEPT ![t] = <<>>]
    /\ status' = [status EXCEPT ![t] = 0]
    /\ touched' = [touched EXCEPT ![t] = FALSE]
    /\ lastget' = IF req[t].route = "prezzi"
                  THEN lastget
                  ELSE [route |-> "get", req |-> req[t], status |-> status[t], resp |-> resp[t]]
    /\ UNCHANGED <<distributori, lock, torn, serial, lastput, nreq, before, directVars, tankVars>>

----------------------------------------------------------------------------
(* Specifications *)

\* One step of request thread t, its requests drawn from the given sets.
Serve(t, provinces, bodies, gets) ==
    \/ \E p \in provinces, b \in bodies : api_cambia_prezzi_provincia(t, p, b)
    \/ PutAcquire(t)
    \/ PutLoop(t)
    \/ PutBenzina(t)
    \/ PutDiesel(t)
    \/ \E r \in gets : GetReceive(t, r)
    \/ GetAcquire(t)
    \/ GetSelect(t)
    \/ GetBuild(t)
    \/ Respond(t)

\* The server handling one request at a time, over every request body.
Next == Serve(1, Provinces, Bodies, GetRequests)

Spec == Init /\ [][Next]_vars

\* The threaded server: requests handled concurrently by the threads.
ConcNext == \E t \in Threads : Serve(t, ConcProvinces, ConcBodies, ConcGetRequests)

SpecConc == Init /\ [][ConcNext]_vars

\* The steps of a handler once its request has been received: a request
\* thread that can run is eventually scheduled.
Handle(t) ==
    \/ PutAcquire(t)
    \/ PutLoop(t)
    \/ PutBenzina(t)
    \/ PutDiesel(t)
    \/ GetAcquire(t)
    \/ GetSelect(t)
    \/ GetBuild(t)
    \/ Respond(t)

\* PUT bodies of the fair specification: one whose loop ends and one for
\* which set_prezzo raises inside the with block.
LiveBodies == {JObj(JNum(MaxPrice), Absent, FALSE), JObj(JNum(0), JNum(-1), FALSE)}

LiveNext == \E t \in Threads : Serve(t, ConcProvinces, LiveBodies, ConcGetRequests)

\* The threaded server with its threads scheduled fairly; clients are free to
\* send requests or not.
SpecLive == Init /\ [][LiveNext]_vars /\ \A t \in Threads : WF_vars(Handle(t))

\* Distributore.set_prezzo called directly on a station of the registry, between
\* requests.
Tipi == {"benzina", "diesel", "gpl"}

CallSetPrezzo(i, tipo, nuovo_prezzo) ==
    LET r == set_prezzo(distributori[i], tipo, nuovo_prezzo) IN
    /\ \A t \in Threads : pc[t] = "idle"
    /\ nreq < MaxRequests
    /\ nreq' = nreq + 1
    /\ scall' = [op |-> "set_prezzo", i |-> i, tipo |-> tipo, nuovo_prezzo |-> nuovo_prezzo]
    /\ sprev' = distributori[i]
    /\ sexc' = r[2]
    /\ spost' = r[1]
    /\ distributori' = [distributori EXCEPT ![i] = r[1]]
    /\ serial' = [serial EXCEPT ![i] = r[1]]
    /\ torn' = IF r[1] # distributori[i] THEN [torn EXCEPT ![i] = FALSE] ELSE torn
    /\ lastput' = IF r[1] # distributori[i] THEN NoReq ELSE lastput
    /\ lastget' = IF r[1] # distributori[i] THEN NoReq ELSE lastget
    /\ UNCHANGED <<lock, pc, req, data, nuovi_prezzi, idx, aggiornati, work, resp, status,
                   touched, before, tankVars>>

\* Requests served one at a time, and direct set_prezzo calls between them.
StationNext ==
    \/ Serve(1, ConcProvinces, ConcBodies, ConcGetRequests)
    \/ \E i \in DOMAIN SeedDistributori, tipo \in Tipi, p \in Prices :
           CallSetPrezzo(i, tipo, p)

SpecStation == Init /\ [][StationNext]_vars

\* A Serbatoio called directly with any amount.
Aggiungi(q) ==
    /\ tcall' = [op |-> "aggiungi", quantita |-> q]
    /\ tprev' = tank.livello
    /\ tank' = aggiungi(tank, q)[1]
    /\ texc' = aggiungi(tank, q)[2]
    /\ UNCHANGED <<httpVars, tret>>

Preleva(q) ==
    /\ tcall' = [op |-> "preleva", quantita |-> q]
    /\ tprev' = tank.livello
    /\ tank' = preleva(tank, q)[1]
    /\ texc' = preleva(tank, q)[2]
    /\ UNCHANGED <<httpVars, tret>>

\* Serbatoio.percentuale called directly.
Percentuale ==
    /\ tcall' = [op |-> "percentuale", quantita |-> 0]
    /\ tprev' = tank.livello
    /\ tret' = percentuale(tank)
    /\ texc' = ""
    /\ UNCHANGED <<httpVars, tank>>

TankNext ==
    \/ \E q \in -1..(MaxCap + 2) : Aggiungi(q)
    \/ \E q \in -1..(MaxCap + 2) : Preleva(q)

\* An idle server and any tank with 0 <= livello <= capacita.
InitTank == HttpInit /\ TankInit

SpecTank == InitTank /\ [][TankNext]_vars

\* percentuale, aggiungi and preleva on any constructed Serbatoio.
PercentNext ==
    \/ Percentuale
    \/ \E q \in -1..(MaxCap + 2) : Aggiungi(q)
    \/ \E q \in -1..(MaxCap + 2) : Preleva(q)

SpecPercent == InitPercent /\ [][PercentNext]_vars

\* Requests served one at a time on a registry in any storage order.
OrderNext == Serve(1, ConcProvinces, ConcBodies, ConcGetRequests)

SpecOrder == InitOrder /\ [][OrderNext]_vars

----------------------------------------------------------------------------
(* Properties *)

\* C1: after any sequence of aggiungi/preleva calls with any amounts, every
\* tank has 0 <= livello <= capacita.
C1_TankInvariant == 0 <= tank.livello /\ tank.livello <= tank.capacita

\* An oversized aggiungi has filled a tank that was not full.
W_C1 ==
    /\ tcall.op = "aggiungi"
    /\ tprev < tank.capacita
    /\ tprev + tcall.quantita > tank.capacita
    /\ tank.livello = tank.capacita

\* C2: no GET response contains a station whose benzina price was written by
\* a PUT carrying both prices while its diesel price is still the one from
\* before that PUT.
C2_NoHalfUpdatedRead ==
    \A t \in Threads :
        pc[t] = "get_build" => \A j \in 1..(idx[t] - 1) : ~torn[work[t][j]]

BothPrices(t) == DOMAIN nuovi_prezzi[t] = {"benzina", "diesel"}

PutDone(t) == pc[t] = "respond" /\ req[t].route = "prezzi" /\ status[t] = 200

\* C3: concurrent PUTs serialize.  Whenever the lock is free the registry is
\* the one obtained by running the PUTs served so far one after the other (in
\* the order they took the lock); and after two concurrent successful PUTs
\* for the same province carrying both prices, every station of that province
\* has the two prices of one and the same of them.
C3_Serialized ==
    /\ lock = 0 => distributori = serial
    /\ \A t1 \in Threads, t2 \in Threads :
          ( /\ t1 # t2
            /\ PutDone(t1) /\ PutDone(t2)
            /\ BothPrices(t1) /\ BothPrices(t2)
            /\ Lower(req[t1].provincia) = Lower(req[t2].provincia) )
          => \E t \in {t1, t2} :
                \A i \in DOMAIN distributori :
                    Lower(distributori[i].provincia) = Lower(req[t].provincia)
                    => /\ distributori[i].prezzo_benzina = nuovi_prezzi[t]["benzina"]
                       /\ distributori[i].prezzo_diesel = nuovi_prezzi[t]["diesel"]

\* Two PUTs for the same province with different prices, in flight together,
\* have both returned 200.
W_C3 ==
    /\ PutDone(1) /\ PutDone(2)
    /\ BothPrices(1) /\ BothPrices(2)
    /\ req[1].provincia = req[2].provincia
    /\ req[1].provincia = mi
    /\ nuovi_prezzi[1]["benzina"] # nuovi_prezzi[2]["benzina"]

\* C4: every supplied price is validated before any station is touched: no
\* PUT is inside its loop with a price set_prezzo rejects, and a PUT that
\* fails has assigned no price.
C4_ValidatedBeforeLoop ==
    \A t \in Threads :
        /\ pc[t] \in {"put_loop", "put_benzina", "put_diesel"}
           => \A k \in DOMAIN nuovi_prezzi[t] : nuovi_prezzi[t][k] >= 0
        /\ (pc[t] = "respond" /\ req[t].route = "prezzi" /\ status[t] # 200)
           => ~touched[t]

\* The body carries a negative number for benzina or diesel.
NegativeSupplied(v) ==
    /\ v.t = "obj"
    /\ \E k \in {"benzina", "diesel"} : v[k].t = "num" /\ v[k].n < 0

\* C5: a PUT whose body carries a negative price is answered with HTTP 400.
C5_NegativePriceIs400 ==
    \A t \in Threads :
        (pc[t] = "respond" /\ req[t].route = "prezzi" /\ NegativeSupplied(data[t]))
        => status[t] = 400

\* C6: both prices of every station are >= 0 in every reachable state.
C6_PricesNonNegative ==
    \A i \in DOMAIN distributori :
        distributori[i].prezzo_benzina >= 0 /\ distributori[i].prezzo_diesel >= 0

\* A direct set_prezzo call with a negative price has been refused, and a PUT
\* has failed on a negative diesel price after writing a benzina price.
W_C6 ==
    /\ scall.op = "set_prezzo" /\ scall.nuovo_prezzo < 0 /\ sexc = "Prezzo negativo"
    /\ pc[1] = "respond" /\ status[1] = 500 /\ touched[1]

\* Case-insensitive equality of two province codes.
Upper(c) == IF c >= 97 /\ c <= 122 THEN c - 32 ELSE c

EqIgnoreCase(a, b) == Len(a) = Len(b) /\ \A i \in 1..Len(a) : Upper(a[i]) = Upper(b[i])

Matches(d, provincia) == EqIgnoreCase(d.provincia, provincia)

\* The ids of the stations of a province, in registry order.
MatchingIds(reg, provincia) ==
    LET sel == SelectSeq(reg, LAMBDA d : Matches(d, provincia))
    IN [j \in 1..Len(sel) |-> sel[j].id]

\* The prices a station shows are those of a price dict, for the keys it has.
HasPrices(d, prezzi) ==
    /\ "benzina" \in DOMAIN prezzi => d.prezzo_benzina = prezzi["benzina"]
    /\ "diesel" \in DOMAIN prezzi => d.prezzo_diesel = prezzi["diesel"]

\* The j-th station dict of the response a GET handler is building.
Entry(t, j) == IF req[t].route = "livelli_distributore" THEN resp[t] ELSE resp[t][j]

\* C7: a PUT that returns 200 for province P returns in aggiornati exactly the
\* ids of the stations whose province equals P ignoring case, in registry
\* order; those stations keep the supplied prices until a later write; and
\* every GET response shows them (the prices of the registry).
C7_BulkUpdateApplied ==
    /\ \A t \in Threads :
          PutDone(t) => resp[t].aggiornati = MatchingIds(distributori, req[t].provincia)
    /\ lastput.route # "none"
       => \A i \in DOMAIN distributori :
             Matches(distributori[i], lastput.provincia)
             => HasPrices(distributori[i], lastput.prezzi)
    /\ \A t \in Threads :
          pc[t] = "get_build"
          => \A j \in 1..(idx[t] - 1) :
                HasPrices(distributori[work[t][j]],
                          ("benzina" :> Entry(t, j).prezzo_benzina)
                          @@ ("diesel" :> Entry(t, j).prezzo_diesel))

\* After a PUT for "mi" with both prices returned [1, 2], a GET of the full
\* list has serialised station 1 with those prices.
W_C7 ==
    /\ lastput.route # "none"
    /\ lastput.provincia = mi
    /\ DOMAIN lastput.prezzi = {"benzina", "diesel"}
    /\ pc[1] = "get_build" /\ req[1].route = "elenco" /\ idx[1] > 1
    /\ resp[1][1].id = 1
    /\ resp[1][1].prezzo_benzina = lastput.prezzi["benzina"]
    /\ resp[1][1].prezzo_benzina # SeedDistributori[1].prezzo_benzina

\* A member value that is a JSON number or a decimal string.
IsNumeric(x) == x.t = "num" \/ (x.t = "str" /\ x.s \in {"1", "-1"})

\* The body is missing or malformed, has neither benzina nor diesel, or has a
\* benzina or diesel member that is not numeric.
BadBody(v) ==
    \/ v.t = "none"
    \/ v.t # "obj"
    \/ (v.benzina = Absent /\ v.diesel = Absent)
    \/ \E k \in {"benzina", "diesel"} : v[k] # Absent /\ ~IsNumeric(v[k])

\* C8: a PUT with such a body is answered with HTTP 400 and assigns no price.
C8_BadBodyIs400 ==
    \A t \in Threads :
        (pc[t] = "respond" /\ req[t].route = "prezzi" /\ BadBody(data[t]))
        => (status[t] = 400 /\ ~touched[t])

\* C9: aggiungi with quantita >= 0 raises nothing and leaves
\* livello = min(capacita, livello + quantita).
C9_AddClamps ==
    (tcall.op = "aggiungi" /\ tcall.quantita >= 0)
    => /\ texc = ""
       /\ tank.livello = (IF tprev + tcall.quantita > tank.capacita
                          THEN tank.capacita
                          ELSE tprev + tcall.quantita)

\* livello 7000, capacita 10000, quantita 5000: livello 10000.
W_C9 ==
    /\ tcall = [op |-> "aggiungi", quantita |-> 5]
    /\ tprev = 7
    /\ tank = Serbatoio(10, 10)
    /\ texc = ""

\* C10: preleva with quantita > livello raises "livello insufficiente" and
\* leaves livello unchanged; with 0 <= quantita <= livello it returns and
\* livello has decreased by quantita.
C10_Withdraw ==
    tcall.op = "preleva"
    => /\ tcall.quantita > tprev => (texc = "livello insufficiente" /\ tank.livello = tprev)
       /\ (0 <= tcall.quantita /\ tcall.quantita <= tprev)
          => (texc = "" /\ tank.livello = tprev - tcall.quantita)

\* A preleva of the whole content has emptied the tank.
W_C10 ==
    /\ tcall.op = "preleva"
    /\ tcall.quantita = tprev
    /\ tprev > 0
    /\ texc = ""
    /\ tank.livello = 0

\* C11: set_prezzo called with a negative price, for benzina or for diesel,
\* raises ValueError("Prezzo negativo") and leaves both prices of the station
\* (the whole station) as they were.
C11_NegativePriceRefused ==
    (scall.op = "set_prezzo" /\ scall.tipo \in {"benzina", "diesel"} /\ scall.nuovo_prezzo < 0)
    => /\ sexc = "Prezzo negativo"
       /\ spost.prezzo_benzina = sprev.prezzo_benzina
       /\ spost.prezzo_diesel = sprev.prezzo_diesel
       /\ spost = sprev

\* set_prezzo("diesel", -1) has been refused on station 2 after an earlier
\* request or call changed one of its prices.
W_C11 ==
    /\ scall.op = "set_prezzo" /\ scall.i = 2
    /\ scall.tipo = "diesel" /\ scall.nuovo_prezzo = -1
    /\ sexc = "Prezzo negativo"
    /\ sprev # SeedDistributori[2]
    /\ spost = sprev

\* The station dict d is the view of station s: its id, name and tank data.
IsViewOf(d, s) ==
    /\ d.id = s.id /\ d.nome = s.nome
    /\ d.livello_benzina = s.serbatoio_benzina.livello
    /\ d.capacita_benzina = s.serbatoio_benzina.capacita
    /\ d.livello_diesel = s.serbatoio_diesel.livello
    /\ d.capacita_diesel = s.serbatoio_diesel.capacita

GetDone(t, route) == pc[t] = "respond" /\ req[t].route = route

\* C12: GET /api/distributori/<did>/livelli is answered 404 exactly when no
\* station of the registry has id did, and otherwise 200 with the view of the
\* station that has it; the lookup raises nothing (the answer is never 500).
C12_NotFoundIff404 ==
    \A t \in Threads :
        GetDone(t, "livelli_distributore")
        => LET present == \E i \in DOMAIN distributori : distributori[i].id = req[t].did
           IN /\ status[t] \in {200, 404}
              /\ status[t] = 404 <=> ~present
              /\ status[t] = 200
                 => \E i \in DOMAIN distributori :
                        /\ distributori[i].id = req[t].did
                        /\ IsViewOf(resp[t], distributori[i])

\* GET /api/distributori/999/livelli has been answered 404.
W_C12 ==
    /\ GetDone(1, "livelli_distributore")
    /\ req[1].did = 999
    /\ status[1] = 404

\* C13: GET /api/distributori/provincia/<provincia>/livelli is answered 200
\* with exactly the stations whose province equals the argument ignoring
\* case, in seed order; the array is empty when there is none.
C13_LevelsByProvince ==
    \A t \in Threads :
        GetDone(t, "livelli_provincia")
        => LET ids == MatchingIds(SeedDistributori, req[t].provincia)
           IN /\ status[t] = 200
              /\ Len(resp[t]) = Len(ids)
              /\ \A j \in 1..Len(ids) :
                    /\ resp[t][j].id = ids[j]
                    /\ \E i \in DOMAIN distributori :
                          distributori[i].id = ids[j] /\ IsViewOf(resp[t][j], distributori[i])

\* The read for "mi" has returned stations 1 and 2, whose province is "MI".
W_C13 ==
    /\ GetDone(1, "livelli_provincia")
    /\ req[1].provincia = mi
    /\ status[1] = 200
    /\ Len(resp[1]) = 2 /\ resp[1][1].id = 1 /\ resp[1][2].id = 2

\* The read for "XX", a province without stations, has returned [] with 200.
W_C13_empty ==
    /\ GetDone(1, "livelli_provincia")
    /\ req[1].provincia = XX
    /\ status[1] = 200
    /\ resp[1] = <<>>

\* C14: GET /api/distributori is answered 200 with every station of the
\* registry exactly once, in strictly ascending order of id, whatever the
\* storage order of the registry.
C14_FullListSorted ==
    \A t \in Threads :
        GetDone(t, "elenco")
        => /\ status[t] = 200
           /\ Len(resp[t]) = Len(distributori)
           /\ \A j \in 1..Len(resp[t]), k \in 1..Len(resp[t]) :
                 j < k => resp[t][j].id < resp[t][k].id
           /\ \A i \in DOMAIN distributori :
                 \E j \in 1..Len(resp[t]) :
                     /\ IsViewOf(resp[t][j], distributori[i])
                     /\ resp[t][j].prezzo_benzina = distributori[i].prezzo_benzina
                     /\ resp[t][j].prezzo_diesel = distributori[i].prezzo_diesel

\* The registry stores station 3 first and station 1 last, and the full list
\* has been returned with ids 1, 2, 3.
W_C14 ==
    /\ distributori[1].id = 3 /\ distributori[3].id = 1
    /\ GetDone(1, "elenco") /\ status[1] = 200
    /\ resp[1][1].id = 1 /\ resp[1][2].id = 2 /\ resp[1][3].id = 3

\* C15: percentuale returns 0.0 for a tank of capacita 0 whatever its livello,
\* and 100 * livello / capacita otherwise (the returned fraction tret has that
\* value); the call leaves livello and capacita as they were.
C15_PercentFull ==
    /\ [](tcall.op = "percentuale"
           => /\ tret[2] # 0
              /\ IF tank.capacita = 0
                 THEN tret[1] = 0
                 ELSE tret[1] * tank.capacita = 100 * tank.livello * tret[2])
    /\ [][tcall'.op = "percentuale" => tank' = tank]_vars

\* percentuale has returned 0 for a tank of capacita 0 and livello 5.
W_C15 ==
    /\ tcall.op = "percentuale"
    /\ tank = Serbatoio(0, 5)
    /\ tret[1] = 0

\* The identity of a station: everything but its prices and tank levels.
Identity(d) ==
    [id |-> d.id, nome |-> d.nome, provincia |-> d.provincia, indirizzo |-> d.indirizzo,
     lat |-> d.lat, lon |-> d.lon]

\* C16: in every reachable state the registry holds the stations it held at
\* startup, each at its place with its id, and no two of them share an id.
C16_RegistryFixed ==
    /\ Len(distributori) = Len(SeedDistributori)
    /\ \A i \in DOMAIN distributori : Identity(distributori[i]) = Identity(SeedDistributori[i])
    /\ \A i \in DOMAIN distributori, j \in DOMAIN distributori :
          distributori[i].id = distributori[j].id => i = j

\* Two concurrent PUTs, for "mi" and for "TO", have returned 200 and every
\* station has a new benzina price.
W_C16 ==
    /\ PutDone(1) /\ PutDone(2)
    /\ req[1].provincia = mi /\ req[2].provincia = TO
    /\ \A i \in DOMAIN distributori :
          distributori[i].prezzo_benzina # SeedDistributori[i].prezzo_benzina

\* The handler of thread t is outside its with block.
Outside(t) == pc[t] \in {"idle", "put_lock", "get_lock", "respond"}

Waiting(t) == pc[t] \in {"put_lock", "get_lock"}

\* C17: a thread holds the lock only inside the with block of its handler: it
\* has released it when its response is ready, whether the handler returned,
\* aborted with 404 or let the exception of set_prezzo through; and every
\* request waiting for the lock eventually holds it.
C17_LockReleased ==
    /\ [](\A t \in Threads : Outside(t) => lock # t)
    /\ \A t \in Threads : Waiting(t) ~> (lock = t)

\* Thread 1's PUT has ended in the exception of set_prezzo (500) and thread 2,
\* which was waiting, holds the lock.
W_C17 ==
    /\ pc[1] = "respond" /\ req[1].route = "prezzi" /\ status[1] = 500
    /\ resp[1].error = "Prezzo negativo"
    /\ lock = 2

\* A GET has aborted with 404 and the other thread holds the lock.
W_C17_abort ==
    /\ pc[1] = "respond" /\ status[1] = 404
    /\ lock = 2

\* The request body names the price field key.
Named(v, key) == v.t = "obj" /\ v[key] # Absent

\* The two tanks of a station.
Tanks(d) == <<d.serbatoio_benzina, d.serbatoio_diesel>>

\* C18: from its reception to its response, a PUT for province P has changed
\* nothing but the price fields its body names, on stations whose province
\* equals P ignoring case: a price the body does not name is unchanged, every
\* field of the other stations is unchanged, and so are the ids, provinces,
\* tank levels and capacities of all stations.
C18_UpdateFrame ==
    \A t \in Threads :
        req[t].route = "prezzi"
        => /\ Len(distributori) = Len(before)
           /\ \A i \in DOMAIN before :
                 /\ Identity(distributori[i]) = Identity(before[i])
                 /\ Tanks(distributori[i]) = Tanks(before[i])
                 /\ ~Matches(before[i], req[t].provincia) => distributori[i] = before[i]
                 /\ ~Named(data[t], "benzina")
                    => distributori[i].prezzo_benzina = before[i].prezzo_benzina
                 /\ ~Named(data[t], "diesel")
                    => distributori[i].prezzo_diesel = before[i].prezzo_diesel

\* A PUT for "mi" naming benzina only has returned 200: stations 1 and 2 have
\* the new benzina price and their diesel price of before, station 3 is as before.
W_C18 ==
    /\ PutDone(1) /\ req[1].provincia = mi
    /\ Named(data[1], "benzina") /\ ~Named(data[1], "diesel")
    /\ \A i \in {1, 2} :
          /\ distributori[i].prezzo_benzina = MaxPrice
          /\ before[i].prezzo_benzina # MaxPrice
          /\ distributori[i].prezzo_diesel = before[i].prezzo_diesel
    /\ distributori[3] = before[3]

\* No station of the registry has a province equal to provincia ignoring case.
NoMatch(provincia) == \A i \in DOMAIN distributori : ~Matches(distributori[i], provincia)

\* C19: a PUT for a province no station has changes no station, and when its
\* body is well-formed (an object with at least one price, every price
\* numeric, of any value) it is answered 200 with an empty aggiornati list.
C19_NoMatchIsEmptySuccess ==
    \A t \in Threads :
        (req[t].route = "prezzi" /\ NoMatch(req[t].provincia))
        => /\ distributori = before
           /\ (pc[t] = "respond" /\ ~BadBody(data[t]))
              => (status[t] = 200 /\ resp[t] = [aggiornati |-> <<>>])

\* A PUT for "XX" carrying a negative diesel price has been answered 200 with [].
W_C19 ==
    /\ PutDone(1) /\ req[1].provincia = XX
    /\ data[1].diesel = JNum(-1)
    /\ resp[1].aggiornati = <<>>
    /\ distributori = before

\* C20: whatever requests are served, no handler ends in the exception
\* "livello insufficiente" or "Tipo carburante sconosciuto", and every tank
\* keeps the level and capacity of the seed.
C20_NoTankOrTipoError ==
    /\ \A t \in Threads :
          status[t] = 500
          => resp[t].error \notin {"livello insufficiente", "Tipo carburante sconosciuto"}
    /\ \A i \in DOMAIN distributori : Tanks(distributori[i]) = Tanks(SeedDistributori[i])

\* One PUT has written prices and returned 200, another has ended in the
\* exception "Prezzo negativo".
W_C20 ==
    /\ PutDone(1) /\ touched[1]
    /\ pc[2] = "respond" /\ status[2] = 500 /\ resp[2].error = "Prezzo negativo"

\* C21: set_prezzo with a tipo other than benzina and diesel and a price >= 0
\* raises "Tipo carburante sconosciuto" and leaves the station as it was; with
\* benzina or diesel and a price >= 0 it returns, the price of that tipo is
\* the new one and nothing else of the station has changed; with a negative
\* price it raises "Prezzo negativo" whatever the tipo, unknown ones included.
C21_SetPrezzoCases ==
    scall.op = "set_prezzo"
    => LET known == scall.tipo \in {"benzina", "diesel"}
           p == scall.nuovo_prezzo
       IN /\ (~known /\ p >= 0)
             => (sexc = "Tipo carburante sconosciuto" /\ spost = sprev)
          /\ (scall.tipo = "benzina" /\ p >= 0)
             => /\ sexc = ""
                /\ spost.prezzo_benzina = p
                /\ spost = [sprev EXCEPT !.prezzo_benzina = p]
          /\ (scall.tipo = "diesel" /\ p >= 0)
             => /\ sexc = ""
                /\ spost.prezzo_diesel = p
                /\ spost = [sprev EXCEPT !.prezzo_diesel = p]
          /\ p < 0 => (sexc = "Prezzo negativo" /\ spost = sprev)

\* set_prezzo("gpl", -1) has raised "Prezzo negativo".
W_C21 ==
    /\ scall.op = "set_prezzo"
    /\ scall.tipo = "gpl" /\ scall.nuovo_prezzo = -1
    /\ sexc = "Prezzo negativo"
    /\ spost = sprev

\* set_prezzo("gpl", 0) has raised "Tipo carburante sconosciuto".
W_C21_unknown ==
    /\ scall.op = "set_prezzo"
    /\ scall.tipo = "gpl" /\ scall.nuovo_prezzo = 0
    /\ sexc = "Tipo carburante sconosciuto"
    /\ spost = sprev

\* C22: aggiungi and preleva with quantita < 0 raise "quantita negativa" and
\* leave livello as it was, for preleva also when quantita exceeds livello;
\* and no step, a returning or a raising call, changes capacita.
C22_NegativeAmountRefused ==
    /\ []((tcall.op \in {"aggiungi", "preleva"} /\ tcall.quantita < 0)
           => (texc = "quantita negativa" /\ tank.livello = tprev))
    /\ [][tank'.capacita = tank.capacita]_vars

\* preleva(-1) on a tank of livello -2 (so that -1 > livello as well) has
\* raised "quantita negativa".
W_C22 ==
    /\ tcall = [op |-> "preleva", quantita |-> -1]
    /\ tprev < -1
    /\ texc = "quantita negativa"
    /\ tank.livello = tprev

\* aggiungi(-1) has raised "quantita negativa" on a tank that is not empty.
W_C22_add ==
    /\ tcall = [op |-> "aggiungi", quantita |-> -1]
    /\ tprev > 0
    /\ texc = "quantita negativa"
    /\ tank.livello = tprev

\* The ids of a list of stations or of station dicts, in list order.
IdsOf(list) == [j \in 1..Len(list) |-> list[j].id]

\* The map dict d shows station s.
IsMapEntryOf(d, s) ==
    /\ d.id = s.id /\ d.nome = s.nome /\ d.provincia = s.provincia
    /\ d.lat = s.lat /\ d.lon = s.lon
    /\ d.prezzo_benzina = s.prezzo_benzina /\ d.prezzo_diesel = s.prezzo_diesel

\* A GET handler is running in thread t.
InGet(t) == pc[t] \in {"get_lock", "get_select", "get_build"}

\* C23: reads are pure.  No step taken while a GET is being served changes
\* the registry, neither a field of a station nor the storage order; the map
\* read returns every station, in the order the registry had at startup,
\* whatever reads came before it; and a read that repeats the last read, with
\* no write to the registry in between, returns the same status and data.
C23_ReadsArePure ==
    /\ [][(\E t \in Threads : InGet(t)) => distributori' = distributori]_vars
    /\ \A o \in Orders :
          (IdsOf(distributori) = [i \in 1..3 |-> SeedDistributori[o[i]].id])
          => [](\A t \in Threads :
                   GetDone(t, "mappa")
                   => /\ status[t] = 200
                      /\ IdsOf(resp[t]) = [i \in 1..3 |-> SeedDistributori[o[i]].id]
                      /\ \A j \in 1..3 : IsMapEntryOf(resp[t][j], distributori[j]))
    /\ [](\A t \in Threads :
             (pc[t] = "respond" /\ lastget.route = "get" /\ lastget.req = req[t])
             => (status[t] = lastget.status /\ resp[t] = lastget.resp))

\* On a registry stored as 3, 2, 1 the sorted full list has been read, and the
\* map read after it has returned the stations as 3, 2, 1.
W_C23 ==
    /\ lastget.route = "get" /\ lastget.req.route = "elenco"
    /\ IdsOf(lastget.resp) = <<1, 2, 3>>
    /\ GetDone(1, "mappa") /\ status[1] = 200
    /\ IdsOf(resp[1]) = <<3, 2, 1>>

\* The full list has been read twice in a row and has come back the same.
W_C23_repeat ==
    /\ lastget.route = "get" /\ lastget.req.route = "elenco"
    /\ GetDone(1, "elenco")
    /\ resp[1] = lastget.resp

=============================================================================
